---- MODULE Spec2Model ----
(***************************************************************************)
(* Model of the App component of src/project/src/App.tsx: the parameter   *)
(* store, the emotion synchronisation (calculateEmotions), the classifier  *)
(* (getEmotionalStateDescription), the conversation log and the message    *)
(* dispatcher (handleSubmit).                                              *)
(*                                                                         *)
(* Execution model.  The component runs on one JavaScript thread.  A       *)
(* handler runs to its first await without interruption, React commits the *)
(* state updates it made and re-renders before the next event is           *)
(* dispatched, and the code after an await runs as one continuation.  An   *)
(* action below is therefore one handler up to its await, or one           *)
(* continuation.  A handler reads the state variables of the render it was *)
(* created in: what it reads after an await is what was current when it    *)
(* was invoked, which the records in calcPending and submitPending keep.   *)
(*                                                                         *)
(* The handlers are the component's operations: setInputMessage and       *)
(* handleSubmit can be invoked in every state, and only the conditions in  *)
(* their own code guard them.  The disabled attribute of the input and the *)
(* button (isProcessing || backendError) is not a guard of an action of    *)
(* Spec; UISpec is the component driven through its widgets, where a       *)
(* disabled input takes no text and a disabled button submits nothing.     *)
(*                                                                         *)
(* calculateEmotions and handleSubmit each await twice (fetch, then        *)
(* response.json()); no component state is read or written between the two *)
(* awaits, so both are settled in one step.                                *)
(*                                                                         *)
(* Numbers.  Slider values are in tenths (step="0.1").  Intensities of an  *)
(* EmotionalState are in quarters, which are exactly representable as      *)
(* doubles and far enough from 2.8, 4.2 and 5.6 for the floating-point     *)
(* comparisons of getEmotionalStateDescription to agree with the exact     *)
(* ones.  The timestamp of a Message is not modelled.                      *)
(***************************************************************************)
EXTENDS Integers, Sequences, FiniteSets, TLC

VARIABLES
    messages,        \* useState<Message[]>
    inputMessage,    \* useState('')
    emotionalState,  \* useState<EmotionalState>
    isProcessing,    \* useState(false)
    backendError,    \* useState(false)
    parameters,      \* useState<EmotionalParameters>
    description,     \* the rendered "Current State:" label
    calcPending,     \* calls of calculateEmotions suspended at their await
    submitPending,   \* calls of handleSubmit suspended at their await
    issued,          \* history: number of calculateEmotions calls so far
    latest,          \* history: the latest-issued call that resolved, and its body
    accepted,        \* history: the submissions that passed the guard
    delivered,       \* history: the emotionalState current at each reply
    lastApplied      \* history: the body applied last, its request and the state after

vars == <<messages, inputMessage, emotionalState, isProcessing, backendError,
          parameters, description, calcPending, submitPending,
          issued, latest, accepted, delivered, lastApplied>>

-----------------------------------------------------------------------------
(* Bounds *)

MaxChanges == 1     \* parameter edits in one behaviour
MaxSubmits == 2     \* accepted submissions in one behaviour
MaxRaw == 30        \* largest intensity given to the classifier, in quarters
MaxEdits == 2       \* parameter edits in one behaviour of SpecSync

-----------------------------------------------------------------------------
(* Data *)

Unit == 4           \* quarters per unit of intensity

Undefined == 0 - 1  \* a field the decoded body does not have

NoSnapshot == [anger |-> Undefined - 1, sadness |-> Undefined - 1]

ParamKeys ==
    {"valence", "arousal", "selectionThreshold", "resolution",
     "goalDirectedness", "securingRate"}

SliderMin == 10

SliderMax == 70

(* The slider that is moved, and where to. *)
MovedKeys == {"valence"}

(* A range widget with max="8". *)
SliderValuesBeyondMax == {SliderMax + 10}

SliderValues == {SliderMax}

InitialParameters ==
    [valence |-> 45, arousal |-> 50, selectionThreshold |-> 32,
     resolution |-> 48, goalDirectedness |-> 60, securingRate |-> 35]

InitialEmotionalState == [anger |-> 1 * Unit, sadness |-> 1 * Unit]

(* Texts are sequences of tokens; " " is the whitespace token. *)
Whitespace == {" "}

Texts == {<<>>, <<" ">>, <<" ", "hi">>}

Replies == {<<"ok">>}

FallbackText ==
    <<"I'm currently unable to process messages. Please ensure the backend server is running.">>

(* Decoded bodies of /calculate-emotions: two complete ones and one that   *)
(* lacks the sadness field.                                                *)
CompletePayloads ==
    {[anger |-> 2 * Unit, sadness |-> 5 * Unit],
     [anger |-> 6 * Unit, sadness |-> 1 * Unit]}

IncompletePayloads == {[anger |-> 3 * Unit, sadness |-> Undefined]}

Payloads == CompletePayloads \cup IncompletePayloads

(* The ways a fetch-and-decode fails: fetch rejects, response.ok is false, *)
(* response.json() rejects.                                                *)
Failures == {"network", "status", "undecodable"}

-----------------------------------------------------------------------------
(* String.prototype.trim *)

RECURSIVE TrimStart(_)
TrimStart(s) ==
    IF s # <<>> /\ Head(s) \in Whitespace THEN TrimStart(Tail(s)) ELSE s

RECURSIVE TrimEnd(_)
TrimEnd(s) ==
    IF s # <<>> /\ s[Len(s)] \in Whitespace
        THEN TrimEnd(SubSeq(s, 1, Len(s) - 1))
        ELSE s

Trim(s) == TrimEnd(TrimStart(s))

-----------------------------------------------------------------------------
(* getEmotionalStateDescription *)

(* (raw / 7) * 5 > t and (raw / 7) * 5 < t; every comparison with NaN,     *)
(* which an undefined field gives, is false.                               *)
NormalizedAbove(raw, t) == raw # Undefined /\ 5 * raw > t * 7 * Unit

NormalizedBelow(raw, t) == raw # Undefined /\ 5 * raw < t * 7 * Unit

(* The sadness tests placed before the second anger test. *)
getEmotionalStateDescriptionSadnessFirst(state) ==
    IF NormalizedAbove(state.anger, 4) THEN "Very Agitated"
    ELSE IF NormalizedAbove(state.sadness, 4) THEN "Very Sad"
    ELSE IF NormalizedAbove(state.sadness, 3) THEN "Melancholic"
    ELSE IF NormalizedAbove(state.anger, 3) THEN "Frustrated"
    ELSE IF NormalizedBelow(state.anger, 2) /\ NormalizedBelow(state.sadness, 2)
        THEN "Calm"
    ELSE "Neutral"

getEmotionalStateDescription(state) ==
    IF NormalizedAbove(state.anger, 4) THEN "Very Agitated"
    ELSE IF NormalizedAbove(state.anger, 3) THEN "Frustrated"
    ELSE IF NormalizedAbove(state.sadness, 4) THEN "Very Sad"
    ELSE IF NormalizedAbove(state.sadness, 3) THEN "Melancholic"
    ELSE IF NormalizedBelow(state.anger, 2) /\ NormalizedBelow(state.sadness, 2)
        THEN "Calm"
    ELSE "Neutral"

-----------------------------------------------------------------------------
(* Initial state: the first render and the effect it runs. *)

CalcCall(seq, body) == [seq |-> seq, body |-> body]

Init ==
    /\ messages = <<>>
    /\ inputMessage = <<>>
    /\ emotionalState = InitialEmotionalState
    /\ isProcessing = FALSE
    /\ backendError = FALSE
    /\ parameters = InitialParameters
    /\ description = getEmotionalStateDescription(InitialEmotionalState)
    /\ calcPending = {CalcCall(1, InitialParameters)}
    /\ submitPending = {}
    /\ issued = 1
    /\ latest = [seq |-> 0, data |-> InitialEmotionalState]
    /\ accepted = <<>>
    /\ delivered = <<>>
    /\ lastApplied = [body |-> InitialParameters,
                      data |-> InitialEmotionalState,
                      after |-> InitialEmotionalState, again |-> FALSE]

-----------------------------------------------------------------------------
(* The effect dropping the calls that are still outstanding. *)
handleParameterChangeCancels(param, value) ==
    /\ parameters' = [parameters EXCEPT ![param] = value]
    /\ backendError' = FALSE
    /\ calcPending' = {[seq |-> issued + 1, body |-> parameters']}
    /\ issued' = issued + 1
    /\ UNCHANGED <<messages, inputMessage, emotionalState, isProcessing,
                   description, submitPending, latest, accepted,
                   delivered, lastApplied>>

(* handleParameterChange, and the effect on [parameters] that calls        *)
(* calculateEmotions up to its await.                                      *)

handleParameterChange(param, value) ==
    /\ parameters' = [parameters EXCEPT ![param] = value]
    /\ backendError' = FALSE
    /\ calcPending' = calcPending \cup {CalcCall(issued + 1, parameters')}
    /\ issued' = issued + 1
    /\ UNCHANGED <<messages, inputMessage, emotionalState, isProcessing,
                   description, submitPending, latest, accepted,
                   delivered>>
    /\ UNCHANGED lastApplied

(* The received value blended into the current one instead of replacing it. *)
calculateEmotionsResolveBlends(call, data) ==
    /\ call \in calcPending
    /\ calcPending' = calcPending \ {call}
    /\ emotionalState' =
           [anger |-> (emotionalState.anger + data.anger) \div 2,
            sadness |-> (emotionalState.sadness + data.sadness) \div 2]
    /\ description' = getEmotionalStateDescription(emotionalState')
    /\ latest' = IF call.seq > latest.seq
                      THEN [seq |-> call.seq, data |-> data]
                      ELSE latest
    /\ UNCHANGED <<messages, inputMessage, isProcessing, backendError,
                   parameters, submitPending, issued, accepted, delivered>>
    /\ lastApplied' = [body |-> call.body, data |-> data,
                       after |-> emotionalState',
                       again |-> /\ lastApplied.body = call.body
                                 /\ lastApplied.data = data]

(* calculateEmotions after its awaits, the body decoded. *)
calculateEmotionsResolve(call, data) ==
    /\ call \in calcPending
    /\ calcPending' = calcPending \ {call}
    /\ emotionalState' = data
    /\ description' = getEmotionalStateDescription(data)
    /\ latest' = IF call.seq > latest.seq
                      THEN [seq |-> call.seq, data |-> data]
                      ELSE latest
    /\ UNCHANGED <<messages, inputMessage, isProcessing, backendError,
                   parameters, submitPending, issued, accepted, delivered>>
    /\ lastApplied' = [body |-> call.body, data |-> data,
                       after |-> emotionalState',
                       again |-> /\ lastApplied.body = call.body
                                 /\ lastApplied.data = data]

(* calculateEmotions in its catch block. *)
calculateEmotionsReject(call, failure) ==
    /\ call \in calcPending
    /\ failure \in Failures
    /\ calcPending' = calcPending \ {call}
    /\ backendError' = TRUE
    /\ UNCHANGED <<messages, inputMessage, emotionalState, isProcessing,
                   parameters, description, submitPending, issued, latest,
                   accepted, delivered>>
    /\ UNCHANGED lastApplied

-----------------------------------------------------------------------------
(* The text input's onChange. *)

setInputMessage(text) ==
    /\ inputMessage' = text
    /\ UNCHANGED <<messages, emotionalState, isProcessing, backendError,
                   parameters, description, calcPending, submitPending,
                   issued, latest, accepted, delivered>>
    /\ UNCHANGED lastApplied

-----------------------------------------------------------------------------
(* handleSubmit *)

UserMessage(text) ==
    [text |-> text, isUser |-> TRUE, emotionalState |-> NoSnapshot]

(* The snapshot read from the current state instead of the call's render. *)
AssistantMessageLive(text, call) ==
    [text |-> text, isUser |-> FALSE, emotionalState |-> emotionalState]

(* The assistant message a call of handleSubmit builds: the emotionalState *)
(* it names is the one of the render the call was made in.                 *)
AssistantMessage(text, call) ==
    [text |-> text, isUser |-> FALSE, emotionalState |-> call.emotionalState]

(* The request built from the parameters of the first render. *)
SubmitCallStaleParameters(id) ==
    [id |-> id, message |-> inputMessage, parameters |-> InitialParameters,
     emotionalState |-> emotionalState]

SubmitCall(id) ==
    [id |-> id, message |-> inputMessage, parameters |-> parameters,
     emotionalState |-> emotionalState]

(* The guard testing the text without trim(). *)
SubmitGuardUntrimmed == inputMessage # <<>> /\ ~isProcessing

(* The guard without its isProcessing test. *)
SubmitGuardNotBusyAware == Trim(inputMessage) # <<>>

SubmitGuard == Trim(inputMessage) # <<>> /\ ~isProcessing

(* handleSubmit without setBackendError(false). *)
handleSubmitKeepsFlag ==
    IF ~SubmitGuard
        THEN UNCHANGED vars
        ELSE /\ Len(accepted) < MaxSubmits
             /\ isProcessing' = TRUE
             /\ messages' = Append(messages, UserMessage(inputMessage))
             /\ inputMessage' = <<>>
             /\ submitPending' =
                    submitPending \cup {SubmitCall(Len(accepted) + 1)}
             /\ accepted' = Append(accepted, [message |-> inputMessage,
                                              emotionalState |-> emotionalState])
             /\ UNCHANGED <<emotionalState, backendError, parameters,
                            description, calcPending, issued, latest,
                            delivered, lastApplied>>

(* handleSubmit up to its await. *)
handleSubmit ==
    IF ~SubmitGuard
        THEN UNCHANGED vars
        ELSE /\ Len(accepted) < MaxSubmits
             /\ isProcessing' = TRUE
             /\ messages' = Append(messages, UserMessage(inputMessage))
             /\ inputMessage' = <<>>
             /\ backendError' = FALSE
             /\ submitPending' =
                    submitPending \cup {SubmitCall(Len(accepted) + 1)}
             /\ accepted' = Append(accepted, [message |-> inputMessage,
                                              emotionalState |-> emotionalState])
             /\ UNCHANGED <<emotionalState, parameters, description,
                            calcPending, issued, latest, delivered>>
             /\ UNCHANGED lastApplied

(* The reply written over the pending user entry instead of appended. *)
handleSubmitResolveOverwrites(call, reply) ==
    /\ call \in submitPending
    /\ submitPending' = submitPending \ {call}
    /\ messages' = [messages EXCEPT ![Len(messages)] =
                                        AssistantMessage(reply, call)]
    /\ isProcessing' = FALSE
    /\ delivered' = Append(delivered, emotionalState)
    /\ UNCHANGED <<inputMessage, emotionalState, backendError, parameters,
                   description, calcPending, issued, latest, accepted>>
    /\ UNCHANGED lastApplied

(* handleSubmit after its awaits, the body decoded, then finally. *)
handleSubmitResolve(call, reply) ==
    /\ call \in submitPending
    /\ submitPending' = submitPending \ {call}
    /\ messages' = Append(messages, AssistantMessage(reply, call))
    /\ isProcessing' = FALSE
    /\ delivered' = Append(delivered, emotionalState)
    /\ UNCHANGED <<inputMessage, emotionalState, backendError, parameters,
                   description, calcPending, issued, latest, accepted>>
    /\ UNCHANGED lastApplied

(* The catch block without its fallback message. *)
handleSubmitRejectDropsTurn(call, failure) ==
    /\ call \in submitPending
    /\ failure \in Failures
    /\ submitPending' = submitPending \ {call}
    /\ backendError' = TRUE
    /\ isProcessing' = FALSE
    /\ delivered' = Append(delivered, emotionalState)
    /\ UNCHANGED <<messages, inputMessage, emotionalState, parameters,
                   description, calcPending, issued, latest, accepted>>
    /\ UNCHANGED lastApplied

(* The catch block without setBackendError(true). *)
handleSubmitRejectSilent(call, failure) ==
    /\ call \in submitPending
    /\ failure \in Failures
    /\ submitPending' = submitPending \ {call}
    /\ messages' = Append(messages, AssistantMessage(FallbackText, call))
    /\ isProcessing' = FALSE
    /\ delivered' = Append(delivered, emotionalState)
    /\ UNCHANGED <<inputMessage, emotionalState, backendError, parameters,
                   description, calcPending, issued, latest, accepted>>
    /\ UNCHANGED lastApplied

(* setIsProcessing(false) after the try block instead of in finally. *)
handleSubmitRejectNoFinally(call, failure) ==
    /\ call \in submitPending
    /\ failure \in Failures
    /\ submitPending' = submitPending \ {call}
    /\ backendError' = TRUE
    /\ messages' = Append(messages, AssistantMessage(FallbackText, call))
    /\ delivered' = Append(delivered, emotionalState)
    /\ UNCHANGED <<inputMessage, emotionalState, isProcessing, parameters,
                   description, calcPending, issued, latest, accepted>>
    /\ UNCHANGED lastApplied

(* handleSubmit in its catch block, then finally. *)
handleSubmitReject(call, failure) ==
    /\ call \in submitPending
    /\ failure \in Failures
    /\ submitPending' = submitPending \ {call}
    /\ backendError' = TRUE
    /\ messages' = Append(messages, AssistantMessage(FallbackText, call))
    /\ isProcessing' = FALSE
    /\ delivered' = Append(delivered, emotionalState)
    /\ UNCHANGED <<inputMessage, emotionalState, parameters, description,
                   calcPending, issued, latest, accepted>>
    /\ UNCHANGED lastApplied

-----------------------------------------------------------------------------

ParameterChange ==
    /\ issued < MaxChanges + 1
    /\ \E param \in MovedKeys, value \in SliderValues :
           handleParameterChange(param, value)

CalcResolve ==
    \E call \in calcPending, data \in Payloads :
        calculateEmotionsResolve(call, data)

CalcReject ==
    \E call \in calcPending, failure \in Failures :
        calculateEmotionsReject(call, failure)

TypeInput == \E text \in Texts : setInputMessage(text)

Submit == handleSubmit

SubmitResolve ==
    \E call \in submitPending, reply \in Replies :
        handleSubmitResolve(call, reply)

SubmitReject ==
    \E call \in submitPending, failure \in Failures :
        handleSubmitReject(call, failure)

Next ==
    \/ ParameterChange
    \/ CalcResolve
    \/ CalcReject
    \/ TypeInput
    \/ Submit
    \/ SubmitResolve
    \/ SubmitReject

Spec == Init /\ [][Next]_vars

(* The component driven through its widgets. *)

(* The button disabled only while a submission is in flight. *)
disabledWhileBusyOnly == isProcessing

(* disabled={isProcessing || backendError} of the input and the button. *)
disabled == isProcessing \/ backendError

WidgetTypeInput == ~disabled /\ TypeInput

WidgetSubmit == ~disabled /\ Submit

UINext ==
    \/ ParameterChange
    \/ CalcResolve
    \/ CalcReject
    \/ WidgetTypeInput
    \/ WidgetSubmit
    \/ SubmitResolve
    \/ SubmitReject

UISpec == Init /\ [][UINext]_vars

(* The synchronisation alone: a slider moved to its maximum or back to    *)
(* its initial value, and the responses to the recomputation requests.     *)
SyncEdit ==
    /\ issued < MaxEdits + 1
    /\ \E param \in MovedKeys :
           \E value \in SliderValues \cup {InitialParameters[param]} :
               /\ value # parameters[param]
               /\ handleParameterChange(param, value)

SyncNext ==
    \/ SyncEdit
    \/ CalcResolve
    \/ CalcReject

SpecSync == Init /\ [][SyncNext]_vars

(* The reply collaborator eventually answers or fails. *)
FairSpec == Spec /\ WF_vars(SubmitResolve \/ SubmitReject)

-----------------------------------------------------------------------------
(* The classifier on a grid of intensities: the first response to the      *)
(* initial calculateEmotions call carries any state of the grid.           *)

GridStates == [anger : 0..MaxRaw, sadness : 0..MaxRaw]

ClassifyNext ==
    \E call \in calcPending, data \in GridStates :
        calculateEmotionsResolve(call, data)

SpecClassify == Init /\ [][ClassifyNext]_vars

-----------------------------------------------------------------------------
(* Properties *)

Last(log) == log[Len(log)]

(* C1: the EmotionalState is the body of the latest-issued call among the  *)
(* calls that resolved; a body that arrives after the body of a later call *)
(* is discarded.                                                           *)
C1_LatestIssuedWins ==
    (latest.seq > 0 /\ latest.data \in CompletePayloads
        /\ emotionalState \in CompletePayloads)
    => emotionalState = latest.data

(* C2: at most one call of handleSubmit is outstanding, and a submit while *)
(* isProcessing is set changes neither the log nor the outstanding calls.  *)
C2_BusySubmitIsNoOp ==
    /\ [](Cardinality(submitPending) <= 1)
    /\ [][(isProcessing /\ handleSubmit)
            => UNCHANGED <<messages, submitPending, accepted>>]_vars

C2_Witness ==
    /\ isProcessing
    /\ Trim(inputMessage) # <<>>
    /\ Cardinality(submitPending) = 1

(* C3: the log alternates user, assistant in submission order; once all    *)
(* accepted submissions have resolved it holds one entry of each kind per  *)
(* submission, and otherwise it ends in one user entry whose reply is      *)
(* pending.                                                                *)
Alternating(log) == \A i \in 1..Len(log) : log[i].isUser <=> (i % 2 = 1)

C3_LogAlternates ==
    /\ Alternating(messages)
    /\ Len(messages) = 2 * Len(accepted) - Cardinality(submitPending)
    /\ Cardinality(submitPending) <= 1
    /\ \A i \in 1..Len(accepted) :
           /\ 2 * i - 1 <= Len(messages)
           /\ messages[2 * i - 1].text = accepted[i].message
    /\ (Len(messages) % 2 = 1) <=> (submitPending # {})

C3_Witness ==
    /\ Len(accepted) = 2
    /\ submitPending = {}
    /\ Len(messages) = 4

(* C4: a failed sendMessage appends exactly one assistant message with the *)
(* fallback text and a snapshot, and backendError is true afterwards.      *)
C4_SendFailureFallback ==
    [][\A call \in submitPending, failure \in Failures :
          handleSubmitReject(call, failure)
          => /\ Len(messages') = Len(messages) + 1
             /\ SubSeq(messages', 1, Len(messages)) = messages
             /\ Last(messages').text = FallbackText
             /\ ~Last(messages').isUser
             /\ Last(messages').emotionalState # NoSnapshot
             /\ backendError']_vars

C4_Witness ==
    /\ messages # <<>>
    /\ Last(messages).text = FallbackText
    /\ backendError
    /\ ~isProcessing

(* C5: a failed recomputation (fetch rejected, status not ok, body not     *)
(* decodable or incomplete) sets backendError and leaves the               *)
(* EmotionalState as it was.                                               *)
C5_SyncFailureKeepsState ==
    [][\A call \in calcPending :
          /\ \A failure \in Failures :
                 calculateEmotionsReject(call, failure)
                 => (backendError' /\ emotionalState' = emotionalState)
          /\ \A data \in IncompletePayloads :
                 calculateEmotionsResolve(call, data)
                 => (backendError' /\ emotionalState' = emotionalState)]_vars

(* C6: after a successful recomputation the EmotionalState is the received *)
(* value and backendError is false.                                        *)
C6_SyncSuccessClearsError ==
    [][\A call \in calcPending, data \in CompletePayloads :
          calculateEmotionsResolve(call, data)
          => (emotionalState' = data /\ ~backendError')]_vars

(* C7: the label is one of the six and is the label of the first rule that *)
(* matches, with normalized = raw * 5 / 7; an anger level above 3 outranks *)
(* any sadness level.                                                      *)
Labels ==
    {"Very Agitated", "Frustrated", "Very Sad", "Melancholic", "Calm",
     "Neutral"}

Rules(anger, sadness) ==
    << <<anger * 5 > 4 * 7 * Unit, "Very Agitated">>,
       <<anger * 5 > 3 * 7 * Unit, "Frustrated">>,
       <<sadness * 5 > 4 * 7 * Unit, "Very Sad">>,
       <<sadness * 5 > 3 * 7 * Unit, "Melancholic">>,
       <<anger * 5 < 2 * 7 * Unit /\ sadness * 5 < 2 * 7 * Unit, "Calm">>,
       <<TRUE, "Neutral">> >>

FirstMatch(rules) ==
    rules[CHOOSE i \in 1..Len(rules) :
              rules[i][1] /\ \A j \in 1..(i - 1) : ~rules[j][1]][2]

C7_ClassifyFirstMatch ==
    /\ description \in Labels
    /\ description = FirstMatch(Rules(emotionalState.anger,
                                      emotionalState.sadness))
    /\ emotionalState.anger * 5 > 3 * 7 * Unit
           => description \in {"Very Agitated", "Frustrated"}

C7_Witness ==
    /\ calcPending = {}
    /\ description = "Frustrated"
    /\ emotionalState.sadness * 5 > 4 * 7 * Unit

(* C8: when the reply collaborator eventually answers or fails, a set busy *)
(* flag is eventually cleared.                                             *)
C8_BusyEventuallyCleared == isProcessing ~> ~isProcessing

C8_Witness ==
    /\ Len(messages) >= 3
    /\ messages[2].text = FallbackText
    /\ messages[3].isUser
    /\ isProcessing

(* C9: a user message carries no snapshot and an assistant message carries *)
(* the EmotionalState that was current when its submission was dispatched. *)
C9_SnapshotAtDispatch ==
    \A i \in 1..Len(messages) :
        IF messages[i].isUser
            THEN messages[i].emotionalState = NoSnapshot
            ELSE /\ i \div 2 \in 1..Len(accepted)
                 /\ messages[i].emotionalState
                        = accepted[i \div 2].emotionalState

C9_Witness ==
    \E i \in 1..Len(delivered) :
        /\ 2 * i <= Len(messages)
        /\ messages[2 * i].emotionalState = accepted[i].emotionalState
        /\ delivered[i] # accepted[i].emotionalState
        /\ messages[2 * i - 1].emotionalState = NoSnapshot

(* C10: the assistant message appended for a reply carries the reply text  *)
(* and the EmotionalState that is current when the reply is delivered.     *)
C10_SnapshotAtDelivery ==
    [][\A call \in submitPending, reply \in Replies :
          handleSubmitResolve(call, reply)
          => /\ Last(messages').text = reply
             /\ Last(messages').emotionalState = emotionalState]_vars

(* C10 as amended: the assistant message appended for a reply carries the  *)
(* reply text and the EmotionalState that was current when the send        *)
(* request was issued.                                                     *)
C10_ReplySnapshotAtIssue ==
    [][\A call \in submitPending, reply \in Replies :
          handleSubmitResolve(call, reply)
          => /\ Len(messages') = Len(messages) + 1
             /\ Last(messages').text = reply
             /\ ~Last(messages').isUser
             /\ Last(messages').emotionalState
                    = Last(accepted).emotionalState]_vars

C10_Witness ==
    /\ messages # <<>>
    /\ Last(messages).text \in Replies
    /\ Len(delivered) = Len(accepted)
    /\ Last(delivered) # Last(accepted).emotionalState
    /\ Last(messages).emotionalState = Last(accepted).emotionalState
    /\ Last(delivered) = emotionalState

(* C11: the log is append-only: in every step the log before is a prefix   *)
(* of the log after, so no entry, and no snapshot in an entry, changes     *)
(* when the current EmotionalState is replaced.                            *)
C11_LogAppendOnly ==
    [][/\ Len(messages') >= Len(messages)
       /\ SubSeq(messages', 1, Len(messages)) = messages]_vars

C11_Witness ==
    /\ Len(messages) = 4
    /\ messages[2].emotionalState # emotionalState
    /\ messages[2].emotionalState # messages[4].emotionalState

(* C12: while backendError is true no submission is accepted: no send      *)
(* request is issued and no user message is appended.                      *)
C12_NoSubmitWhileFailed ==
    [][backendError
        => /\ accepted' = accepted
           /\ submitPending' \subseteq submitPending
           /\ (Len(messages') > Len(messages) => ~Last(messages').isUser)]_vars

C12_Witness ==
    /\ backendError
    /\ ~isProcessing
    /\ Trim(inputMessage) # <<>>
    /\ Len(accepted) < MaxSubmits

(* C13: once backendError is true it stays true until a call to a          *)
(* collaborator completes successfully; nothing else clears it.            *)
C13_FlagClearedOnlyBySuccess ==
    [][(backendError /\ ~backendError')
        => \/ \E call \in calcPending, data \in CompletePayloads :
                  calculateEmotionsResolve(call, data)
           \/ \E call \in submitPending, reply \in Replies :
                  handleSubmitResolve(call, reply)]_vars

(* C14: when a completion leaves no call outstanding, backendError is true *)
(* exactly when that completion, the most recent one, was a failure.       *)
C14_FlagTracksLastCompletion ==
    [][(calcPending' = {} /\ submitPending' = {})
        => /\ \A call \in calcPending, failure \in Failures :
                  calculateEmotionsReject(call, failure) => backendError'
           /\ \A call \in submitPending, failure \in Failures :
                  handleSubmitReject(call, failure) => backendError'
           /\ \A call \in calcPending, data \in CompletePayloads :
                  calculateEmotionsResolve(call, data) => ~backendError'
           /\ \A call \in submitPending, reply \in Replies :
                  handleSubmitResolve(call, reply) => ~backendError']_vars

(* C15: when the response applied last answered a request with the same    *)
(* parameters and carried the same body (a pure collaborator), applying    *)
(* this response leaves the EmotionalState as that application left it.    *)
C15_SyncIdempotent ==
    [][\A call \in calcPending, data \in Payloads :
          (/\ calculateEmotionsResolve(call, data)
           /\ call.body = lastApplied.body
           /\ data = lastApplied.data)
          => emotionalState' = lastApplied.after]_vars

C15_Witness ==
    /\ lastApplied.again
    /\ lastApplied.data \in CompletePayloads
    /\ emotionalState = lastApplied.after

(* C16: a parameter change issues exactly one recomputation request, which *)
(* carries the whole parameter vector as it is after the change, and       *)
(* cancels no outstanding request.                                         *)
C16_OneRequestPerChange ==
    [][\A param \in ParamKeys, value \in SliderValues :
          handleParameterChange(param, value)
          => /\ parameters' = [parameters EXCEPT ![param] = value]
             /\ issued' = issued + 1
             /\ \E call \in calcPending' \ calcPending :
                    /\ calcPending' = calcPending \cup {call}
                    /\ call.body = parameters']_vars

C16_Witness ==
    /\ Cardinality(calcPending) = 2
    /\ issued = 2
    /\ \E call \in calcPending :
           call.body = parameters /\ call.body # InitialParameters

(* C17: an accepted submit appends the user's message at once and issues   *)
(* one send request, which carries the submitted text and the parameter    *)
(* record that is current at the submission, whole; while the reply is     *)
(* pending the user's message is the last entry of the log.                *)
C17_SendCarriesCurrentRecord ==
    /\ [][(SubmitGuard /\ handleSubmit)
            => /\ messages' = Append(messages, UserMessage(inputMessage))
               /\ \E call \in submitPending' \ submitPending :
                      /\ submitPending' = submitPending \cup {call}
                      /\ call.message = inputMessage
                      /\ call.parameters = parameters]_vars
    /\ [](\A call \in submitPending :
              /\ messages # <<>>
              /\ Last(messages) = UserMessage(call.message)
              /\ DOMAIN call.parameters = ParamKeys)

C17_Witness ==
    \E call \in submitPending :
        /\ call.parameters # InitialParameters
        /\ call.parameters = parameters
        /\ Last(messages).text = call.message
        /\ calcPending # {}

(* C18: each of the six parameter values lies in [1, 7].                   *)
C18_ParametersInRange ==
    /\ DOMAIN parameters = ParamKeys
    /\ \A k \in ParamKeys :
           SliderMin <= parameters[k] /\ parameters[k] <= SliderMax

C18_Witness ==
    /\ parameters # InitialParameters
    /\ \E k \in ParamKeys : parameters[k] = SliderMax

(* C19: issuing a request sets backendError to false, whatever it was, and *)
(* a call that succeeds leaves backendError as it is.                      *)
C19_FlagClearedAtIssue ==
    [][/\ \A param \in ParamKeys, value \in SliderValues :
              handleParameterChange(param, value) => ~backendError'
       /\ (SubmitGuard /\ handleSubmit) => ~backendError'
       /\ \A call \in calcPending, data \in Payloads :
              calculateEmotionsResolve(call, data)
              => backendError' = backendError
       /\ \A call \in submitPending, reply \in Replies :
              handleSubmitResolve(call, reply)
              => backendError' = backendError]_vars

C19_Witness ==
    /\ messages # <<>>
    /\ Last(messages).text = FallbackText
    /\ ~backendError
    /\ ~isProcessing

(* C20: a submit whose text is empty or whitespace only changes nothing:   *)
(* not the busy flag, the log or backendError, and no request is issued.   *)
C20_BlankSubmitIsNoOp ==
    [][(Trim(inputMessage) = <<>> /\ handleSubmit)
        => UNCHANGED <<isProcessing, messages, backendError, submitPending,
                       accepted>>]_vars

C20_Witness ==
    /\ inputMessage = <<" ">>
    /\ ~isProcessing
    /\ backendError
    /\ Len(accepted) < MaxSubmits

====
